---- MODULE Spec2Model ----
(***************************************************************************)
(* Model of vulkano's StateCacher (command_buffer/state_cacher.rs): the    *)
(* cache of the state bound in a command buffer builder, and the helper    *)
(* StateCacherDescriptorSets that compares a list of descriptor sets to    *)
(* the cached list.                                                        *)
(*                                                                         *)
(* Option<T> is modelled as a sequence of length at most one: <<>> is      *)
(* None and <<v>> is Some(v).  Vulkan handles are positive integers and 0  *)
(* is the "nothing bound" handle.  A Rust index i of a SmallVec is the     *)
(* index i + 1 of the TLA+ sequence.                                       *)
(***************************************************************************)
EXTENDS Integers, Sequences, FiniteSets, TLC

VARIABLES
    sc,         \* the StateCacher
    cmp,        \* the live StateCacherDescriptorSets: None, or Some(comparator)
    adds,       \* the number of add calls made on the live comparator
    supplied,   \* the handles given to add on the live comparator, in order
    out,        \* the last call: its name, its argument, what it returned
    fresh,      \* a StateCacher built by new() at the last invalidate, given the same calls
    freshCmp,   \* the live comparator of fresh
    obs,        \* the last call: whether sc and fresh differed before it, and returned the same
    prev,       \* the call before the last one
    pre,        \* the StateCacher before the last call
    queried,    \* the pipeline handle last queried before the last call, per type (0: none)
    returned,   \* per dynamic-state field, the value last returned since new() or invalidate
    abandoned,  \* a comparator was dropped without compare since the last bind_descriptor_sets
    begun,      \* what the last bind_descriptor_sets found and left
    lastCmp,    \* the comparison completed before the one `out` reports, if nothing came between
    watched,    \* the pipeline type whose really bound descriptor sets are followed
    bound       \* the descriptor set really bound in each slot for `watched` (0: unknown)

core == <<sc, cmp, adds>>
shadow == <<fresh, freshCmp, obs>>
hist == <<prev, pre, queried, returned>>
dsghost == <<abandoned, begun, lastCmp>>
vars == <<sc, cmp, adds, supplied, out, fresh, freshCmp, obs, prev, pre, queried,
          returned, abandoned, begun, lastCmp, watched, bound>>

\* ------------------------------------------------------------------ bounds
\* Number of distinct descriptor-set handles the caller uses.
NumSets == 2
\* Largest number of add calls made on one comparator.
MaxAdds == 3
\* Number of distinct values of one dynamic-state field.
NumValues == 2

Sets == 1..NumSets
Values == 1..NumValues

\* --------------------------------------------------- the opaque inputs
\* Handles are compared for equality and nothing else: two pipelines (H and
\* H'), two buffers, two offsets and the two index types are what a query
\* and the next one can tell apart.
Pipelines == {1, 2}
Buffers == {1, 2}
Offsets == {0, 4}
IndexTypes == {"U16", "U32"}

\* --------------------------------------------------------- Option<T>
None == <<>>
Some(v) == <<v>>

NeedChange == "NeedChange"
AlreadyOk == "AlreadyOk"

\* ------------------------------------------------------- DynamicState
DynamicStateNone == [line_width |-> None, viewports |-> None, scissors |-> None]

\* The fields dynamic_state compares.
DynamicStateFields == {"line_width", "viewports", "scissors"}

DynamicStates ==
    [line_width : {None} \cup {Some(v) : v \in Values},
     viewports : {None} \cup {Some(v) : v \in Values},
     scissors : {None} \cup {Some(v) : v \in Values}]

IndexBuffers == [buffer : Buffers, offset : Offsets, ty : IndexTypes]

\* --------------------------------------------------------- StateCacher
new ==
    [dynamic_state |-> DynamicStateNone,
     compute_pipeline |-> 0,
     graphics_pipeline |-> 0,
     compute_descriptor_sets |-> <<>>,
     graphics_descriptor_sets |-> <<>>,
     poisonned_descriptor_sets |-> FALSE,
     index_buffer |-> None]

\* invalidate resetting poisonned_descriptor_sets with the rest.
invalidate_resets_poisonned(self) == new

\* invalidate without the reset of index_buffer.
invalidate_keeps_index_buffer(self) ==
    [self EXCEPT !.dynamic_state = DynamicStateNone,
                 !.compute_pipeline = 0,
                 !.graphics_pipeline = 0,
                 !.compute_descriptor_sets = <<>>,
                 !.graphics_descriptor_sets = <<>>]

\* invalidate: every field but poisonned_descriptor_sets is reset.
invalidate(self) ==
    [self EXCEPT !.dynamic_state = DynamicStateNone,
                 !.compute_pipeline = 0,
                 !.graphics_pipeline = 0,
                 !.compute_descriptor_sets = <<>>,
                 !.graphics_descriptor_sets = <<>>,
                 !.index_buffer = None]

\* The cmp! macro storing the field of `incoming` even when it is None.
cmp_cached_stores_absent(cached, incoming) ==
    IF cached = incoming THEN cached ELSE incoming

\* The cmp! macro on one field: the cached value after it.
cmp_cached(cached, incoming) ==
    IF cached = incoming THEN cached
    ELSE IF incoming # None THEN incoming
    ELSE cached

\* The cmp! macro clearing the field of `incoming` whatever the cache holds.
cmp_incoming_absent(cached, incoming) == None

\* The cmp! macro returning the field of `incoming` as it was given.
cmp_incoming_whole(cached, incoming) == incoming

\* The cmp! macro on one field: the field of `incoming` after it.
cmp_incoming(cached, incoming) ==
    IF cached = incoming THEN None ELSE incoming

\* dynamic_state without the store of the fields that differ.
dynamic_state_never_stores(self, incoming) ==
    [self |-> self,
     ret |-> [line_width |-> cmp_incoming(self.dynamic_state.line_width, incoming.line_width),
              viewports |-> cmp_incoming(self.dynamic_state.viewports, incoming.viewports),
              scissors |-> cmp_incoming(self.dynamic_state.scissors, incoming.scissors)]]

dynamic_state(self, incoming) ==
    [self |-> [self EXCEPT !.dynamic_state =
                  [line_width |-> cmp_cached(self.dynamic_state.line_width, incoming.line_width),
                   viewports |-> cmp_cached(self.dynamic_state.viewports, incoming.viewports),
                   scissors |-> cmp_cached(self.dynamic_state.scissors, incoming.scissors)]],
     ret |-> [line_width |-> cmp_incoming(self.dynamic_state.line_width, incoming.line_width),
              viewports |-> cmp_incoming(self.dynamic_state.viewports, incoming.viewports),
              scissors |-> cmp_incoming(self.dynamic_state.scissors, incoming.scissors)]]

\* A new comparator that starts with a difference recorded at index 0.
NewComparator_with_diff(graphics) ==
    [graphics |-> graphics, offset |-> 0, found_diff |-> Some(0)]

\* A new comparator: which list it borrows, its cursor, its result so far.
NewComparator(graphics) ==
    [graphics |-> graphics, offset |-> 0, found_diff |-> None]

\* bind_descriptor_sets without the flush of a poisoned cache.
bind_descriptor_sets_no_flush(self, graphics) ==
    [self |-> [self EXCEPT !.poisonned_descriptor_sets = TRUE],
     ret |-> NewComparator(graphics)]

bind_descriptor_sets(self, graphics) ==
    LET flushed == IF self.poisonned_descriptor_sets
                   THEN [self EXCEPT !.compute_descriptor_sets = <<>>,
                                     !.graphics_descriptor_sets = <<>>]
                   ELSE self
    IN [self |-> [flushed EXCEPT !.poisonned_descriptor_sets = TRUE],
        ret |-> NewComparator(graphics)]

\* bind_graphics_pipeline without the store of the new handle.
bind_graphics_pipeline_never_stores(self, inner) ==
    IF inner = self.graphics_pipeline
    THEN [self |-> self, ret |-> AlreadyOk]
    ELSE [self |-> self, ret |-> NeedChange]

bind_graphics_pipeline(self, inner) ==
    IF inner = self.graphics_pipeline
    THEN [self |-> self, ret |-> AlreadyOk]
    ELSE [self |-> [self EXCEPT !.graphics_pipeline = inner], ret |-> NeedChange]

\* bind_compute_pipeline storing the new handle as the graphics pipeline.
bind_compute_pipeline_stores_graphics(self, inner) ==
    IF inner = self.compute_pipeline
    THEN [self |-> self, ret |-> AlreadyOk]
    ELSE [self |-> [self EXCEPT !.graphics_pipeline = inner], ret |-> NeedChange]

bind_compute_pipeline(self, inner) ==
    IF inner = self.compute_pipeline
    THEN [self |-> self, ret |-> AlreadyOk]
    ELSE [self |-> [self EXCEPT !.compute_pipeline = inner], ret |-> NeedChange]

\* bind_index_buffer comparing the buffer and the offset alone.
bind_index_buffer_ignores_ty(self, value) ==
    IF self.index_buffer # None
       /\ self.index_buffer[1].buffer = value.buffer
       /\ self.index_buffer[1].offset = value.offset
    THEN [self |-> self, ret |-> AlreadyOk]
    ELSE [self |-> [self EXCEPT !.index_buffer = Some(value)], ret |-> NeedChange]

bind_index_buffer(self, value) ==
    IF self.index_buffer = Some(value)
    THEN [self |-> self, ret |-> AlreadyOk]
    ELSE [self |-> [self EXCEPT !.index_buffer = Some(value)], ret |-> NeedChange]

\* ------------------------------------------- StateCacherDescriptorSets
\* The list the comparator c borrows (its `state` reference).
state(self, c) ==
    IF c.graphics THEN self.graphics_descriptor_sets
    ELSE self.compute_descriptor_sets

\* The comparator c writing st to the list of the other pipeline type.
with_state_of_other(self, c, st) ==
    IF c.graphics THEN [self EXCEPT !.compute_descriptor_sets = st]
    ELSE [self EXCEPT !.graphics_descriptor_sets = st]

\* The cache with the list the comparator c borrows replaced by st.
with_state(self, c, st) ==
    IF c.graphics THEN [self EXCEPT !.graphics_descriptor_sets = st]
    ELSE [self EXCEPT !.compute_descriptor_sets = st]

\* found_diff after a difference at the cursor.
record_diff(c) ==
    IF c.found_diff = None THEN [c EXCEPT !.found_diff = Some(c.offset)] ELSE c

\* add recording, at each overwrite, the length of the list as the difference.
add_records_length(self, c, raw) ==
    LET st == state(self, c) IN
    IF c.offset < Len(st)
    THEN IF st[c.offset + 1] = raw
         THEN [self |-> self, cmp |-> c]
         ELSE [self |-> with_state(self, c, [st EXCEPT ![c.offset + 1] = raw]),
               cmp |-> [c EXCEPT !.found_diff = Some(Len(st))]]
    ELSE [self |-> with_state(self, c, Append(st, raw)),
          cmp |-> record_diff(c)]

\* add: the cursor `offset` is read and never written.
add(self, c, raw) ==
    LET st == state(self, c) IN
    IF c.offset < Len(st)
    THEN IF st[c.offset + 1] = raw
         THEN [self |-> self, cmp |-> c]
         ELSE [self |-> with_state(self, c, [st EXCEPT ![c.offset + 1] = raw]),
               cmp |-> record_diff(c)]
    ELSE [self |-> with_state(self, c, Append(st, raw)),
          cmp |-> record_diff(c)]

\* SmallVec::remove(index): the element at the Rust index is taken out.
remove(st, index) ==
    SubSeq(st, 1, index) \o SubSeq(st, index + 2, Len(st))

\* The loop `for _ in offset .. len { state.remove(offset) }`, n rounds left.
RECURSIVE remove_loop(_, _, _)
remove_loop(st, offset, n) ==
    IF n = 0 THEN st ELSE remove_loop(remove(st, offset), offset, n - 1)

\* compare without the reset of poisonned_descriptor_sets.
compare_leaves_poisonned(self, c) ==
    LET st == state(self, c) IN
    [self |-> IF c.offset < Len(st)
              THEN with_state(self, c, remove_loop(st, c.offset, Len(st) - c.offset))
              ELSE self,
     ret |-> c.found_diff]

compare(self, c) ==
    LET st == state(self, c)
        unpoisonned == [self EXCEPT !.poisonned_descriptor_sets = FALSE]
    IN [self |-> IF c.offset < Len(st)
                 THEN with_state(unpoisonned, c, remove_loop(st, c.offset, Len(st) - c.offset))
                 ELSE unpoisonned,
        ret |-> c.found_diff]

\* ------------------------------------------------------------ the calls
Ev(op, arg, ret) == [op |-> op, arg |-> arg, ret |-> ret]

\* The call op made on the cache a and on the cache b, returning ra and rb:
\* whether it was invalidate, whether the two caches differed when it was
\* made, whether it returned the same on both.
Obs(op, a, b, ra, rb) ==
    [invalidated |-> op = "invalidate",
     differed |-> a # b,
     same |-> ra = rb]

NoBegin ==
    [afterAbandon |-> FALSE, stale |-> FALSE, cached |-> <<>>,
     poisonned |-> FALSE, compute |-> <<>>, graphics |-> <<>>]

NoneBound == [i \in 1..MaxAdds |-> 0]

NoneQueried == [graphics |-> 0, compute |-> 0]

Init ==
    /\ sc = new
    /\ cmp = None
    /\ adds = 0
    /\ supplied = <<>>
    /\ out = Ev("new", None, None)
    /\ fresh = new
    /\ freshCmp = None
    /\ obs = [invalidated |-> FALSE, differed |-> FALSE, same |-> TRUE]
    /\ prev = Ev("new", None, None)
    /\ pre = new
    /\ queried = NoneQueried
    /\ returned = DynamicStateNone
    /\ abandoned = FALSE
    /\ begun = NoBegin
    /\ lastCmp = None
    /\ watched = TRUE
    /\ bound = NoneBound

\* Every method of StateCacher takes &mut self, and the comparator holds a
\* mutable borrow of it: no method can be called while a comparator lives.
Invalidate ==
    /\ cmp = None
    /\ sc' = invalidate(sc)
    /\ UNCHANGED <<cmp, adds>>

DynamicState(incoming) ==
    /\ cmp = None
    /\ sc' = dynamic_state(sc, incoming).self
    /\ UNCHANGED <<cmp, adds>>

BindGraphicsPipeline(inner) ==
    /\ cmp = None
    /\ sc' = bind_graphics_pipeline(sc, inner).self
    /\ UNCHANGED <<cmp, adds>>

BindComputePipeline(inner) ==
    /\ cmp = None
    /\ sc' = bind_compute_pipeline(sc, inner).self
    /\ UNCHANGED <<cmp, adds>>

BindIndexBuffer(value) ==
    /\ cmp = None
    /\ sc' = bind_index_buffer(sc, value).self
    /\ UNCHANGED <<cmp, adds>>

BindDescriptorSets(graphics) ==
    /\ cmp = None
    /\ sc' = bind_descriptor_sets(sc, graphics).self
    /\ cmp' = Some(bind_descriptor_sets(sc, graphics).ret)
    /\ adds' = 0

Add(raw) ==
    /\ cmp # None
    /\ adds < MaxAdds
    /\ sc' = add(sc, cmp[1], raw).self
    /\ cmp' = Some(add(sc, cmp[1], raw).cmp)
    /\ adds' = adds + 1

Compare ==
    /\ cmp # None
    /\ sc' = compare(sc, cmp[1]).self
    /\ cmp' = None
    /\ adds' = 0

\* The comparator is dropped (or leaked) without compare: it has no Drop
\* implementation, so nothing runs.
Drop ==
    /\ cmp # None
    /\ cmp' = None
    /\ adds' = 0
    /\ UNCHANGED sc

\* The record of a call of compare: the list compared and the result.
CompareEv ==
    Ev("compare", [graphics |-> cmp[1].graphics, list |-> supplied], compare(sc, cmp[1]).ret)

\* ------------------------------------ the descriptor-set protocol alone
\* What bind_descriptor_sets found (whether a comparator had been dropped,
\* whether a list held anything, the flag and the two lists) and the list
\* it lends to the comparator.
Begun(graphics) ==
    LET r == bind_descriptor_sets(sc, graphics) IN
    [afterAbandon |-> abandoned,
     stale |-> sc.compute_descriptor_sets # <<>> \/ sc.graphics_descriptor_sets # <<>>,
     cached |-> state(r.self, r.ret),
     poisonned |-> sc.poisonned_descriptor_sets,
     compute |-> sc.compute_descriptor_sets,
     graphics |-> sc.graphics_descriptor_sets]

DS_Invalidate ==
    /\ Invalidate
    /\ UNCHANGED supplied
    /\ out' = Ev("invalidate", None, None)
    /\ lastCmp' = None
    /\ UNCHANGED <<abandoned, begun, shadow, hist, watched, bound>>

DS_BindDescriptorSets ==
    \E graphics \in BOOLEAN :
        /\ BindDescriptorSets(graphics)
        /\ supplied' = <<>>
        /\ out' = Ev("bind_descriptor_sets", graphics, None)
        /\ begun' = Begun(graphics)
        /\ abandoned' = FALSE
        /\ lastCmp' = IF out.op = "compare" THEN Some(out.arg) ELSE None
        /\ UNCHANGED <<shadow, hist, watched, bound>>

DS_Add ==
    \E raw \in Sets :
        /\ Add(raw)
        /\ supplied' = Append(supplied, raw)
        /\ out' = Ev("add", raw, None)
        /\ UNCHANGED <<dsghost, shadow, hist, watched, bound>>

DS_Compare ==
    /\ Compare
    /\ supplied' = <<>>
    /\ out' = CompareEv
    /\ UNCHANGED <<dsghost, shadow, hist, watched, bound>>

DS_Drop ==
    /\ Drop
    /\ supplied' = <<>>
    /\ out' = Ev("drop", None, None)
    /\ abandoned' = TRUE
    /\ lastCmp' = None
    /\ UNCHANGED <<begun, shadow, hist, watched, bound>>

NextDS ==
    \/ DS_Invalidate
    \/ DS_BindDescriptorSets
    \/ DS_Add
    \/ DS_Compare
    \/ DS_Drop

SpecDS == Init /\ [][NextDS]_vars

\* ------------------------- the descriptor sets the caller really binds
\* The caller of compare binds its list from the returned index to the end
\* of the list, and binds nothing on None.
Rebind(b, list, ret) ==
    IF ret = None THEN b
    ELSE [i \in 1..MaxAdds |-> IF i > ret[1] /\ i <= Len(list) THEN list[i] ELSE b[i]]

B_Invalidate ==
    /\ Invalidate
    /\ UNCHANGED supplied
    /\ out' = Ev("invalidate", None, None)
    /\ bound' = NoneBound
    /\ UNCHANGED <<dsghost, shadow, hist, watched>>

B_BindDescriptorSets ==
    \E graphics \in BOOLEAN :
        /\ BindDescriptorSets(graphics)
        /\ supplied' = <<>>
        /\ out' = Ev("bind_descriptor_sets", graphics, None)
        /\ UNCHANGED <<dsghost, shadow, hist, watched, bound>>

B_Add ==
    \E raw \in Sets :
        /\ Add(raw)
        /\ supplied' = Append(supplied, raw)
        /\ out' = Ev("add", raw, None)
        /\ UNCHANGED <<dsghost, shadow, hist, watched, bound>>

B_Compare ==
    /\ Compare
    /\ supplied' = <<>>
    /\ out' = CompareEv
    /\ bound' = IF cmp[1].graphics = watched
                THEN Rebind(bound, supplied, compare(sc, cmp[1]).ret)
                ELSE bound
    /\ UNCHANGED <<dsghost, shadow, hist, watched>>

B_Drop ==
    /\ Drop
    /\ supplied' = <<>>
    /\ out' = Ev("drop", None, None)
    /\ UNCHANGED <<dsghost, shadow, hist, watched, bound>>

NextBound ==
    \/ B_Invalidate
    \/ B_BindDescriptorSets
    \/ B_Add
    \/ B_Compare
    \/ B_Drop

InitBound ==
    /\ sc = new
    /\ cmp = None
    /\ adds = 0
    /\ supplied = <<>>
    /\ out = Ev("new", None, None)
    /\ fresh = new
    /\ freshCmp = None
    /\ obs = [invalidated |-> FALSE, differed |-> FALSE, same |-> TRUE]
    /\ prev = Ev("new", None, None)
    /\ pre = new
    /\ queried = NoneQueried
    /\ returned = DynamicStateNone
    /\ abandoned = FALSE
    /\ begun = NoBegin
    /\ lastCmp = None
    /\ watched \in BOOLEAN
    /\ bound = NoneBound

SpecBound == InitBound /\ [][NextBound]_vars

\* ------------------------------------------- the single-state queries
\* The handles last queried once the call `out` is counted too.
Queried ==
    IF out.op = "bind_graphics_pipeline" THEN [queried EXCEPT !.graphics = out.arg]
    ELSE IF out.op = "bind_compute_pipeline" THEN [queried EXCEPT !.compute = out.arg]
    ELSE IF out.op = "invalidate" THEN NoneQueried
    ELSE queried

\* The values last returned per field once the delta `ret` is counted too.
Returned(ret) ==
    [f \in DynamicStateFields |-> IF ret[f] # None THEN ret[f] ELSE returned[f]]

Q_Invalidate ==
    /\ Invalidate
    /\ out' = Ev("invalidate", None, None)
    /\ prev' = out
    /\ pre' = sc
    /\ queried' = Queried
    /\ returned' = DynamicStateNone
    /\ UNCHANGED <<supplied, dsghost, shadow, watched, bound>>

Q_BindGraphicsPipeline ==
    \E inner \in Pipelines :
        /\ BindGraphicsPipeline(inner)
        /\ out' = Ev("bind_graphics_pipeline", inner, bind_graphics_pipeline(sc, inner).ret)
        /\ prev' = out
        /\ pre' = sc
        /\ queried' = Queried
        /\ UNCHANGED <<returned, supplied, dsghost, shadow, watched, bound>>

Q_BindComputePipeline ==
    \E inner \in Pipelines :
        /\ BindComputePipeline(inner)
        /\ out' = Ev("bind_compute_pipeline", inner, bind_compute_pipeline(sc, inner).ret)
        /\ prev' = out
        /\ pre' = sc
        /\ queried' = Queried
        /\ UNCHANGED <<returned, supplied, dsghost, shadow, watched, bound>>

Q_BindIndexBuffer ==
    \E value \in IndexBuffers :
        /\ BindIndexBuffer(value)
        /\ out' = Ev("bind_index_buffer", value, bind_index_buffer(sc, value).ret)
        /\ prev' = out
        /\ pre' = sc
        /\ queried' = Queried
        /\ UNCHANGED <<returned, supplied, dsghost, shadow, watched, bound>>

Q_DynamicState ==
    \E incoming \in DynamicStates :
        /\ DynamicState(incoming)
        /\ out' = Ev("dynamic_state", incoming, dynamic_state(sc, incoming).ret)
        /\ prev' = out
        /\ pre' = sc
        /\ queried' = Queried
        /\ returned' = Returned(dynamic_state(sc, incoming).ret)
        /\ UNCHANGED <<supplied, dsghost, shadow, watched, bound>>

NextBind ==
    \/ Q_Invalidate
    \/ Q_BindGraphicsPipeline
    \/ Q_BindComputePipeline
    \/ Q_BindIndexBuffer

SpecBind == Init /\ [][NextBind]_vars

NextDyn ==
    \/ Q_Invalidate
    \/ Q_DynamicState

SpecDyn == Init /\ [][NextDyn]_vars

\* ---------------- every call, on the cache and on a newly built one
F_Invalidate ==
    /\ Invalidate
    /\ fresh' = new
    /\ freshCmp' = None
    /\ obs' = Obs("invalidate", invalidate(sc), new, None, None)
    /\ UNCHANGED <<supplied, out, dsghost, hist, watched, bound>>

F_DynamicState ==
    \E incoming \in DynamicStates :
        /\ DynamicState(incoming)
        /\ fresh' = dynamic_state(fresh, incoming).self
        /\ obs' = Obs("dynamic_state", sc, fresh, dynamic_state(sc, incoming).ret,
                      dynamic_state(fresh, incoming).ret)
        /\ UNCHANGED <<supplied, freshCmp, out, dsghost, hist, watched, bound>>

F_BindGraphicsPipeline ==
    \E inner \in Pipelines :
        /\ BindGraphicsPipeline(inner)
        /\ fresh' = bind_graphics_pipeline(fresh, inner).self
        /\ obs' = Obs("bind_graphics_pipeline", sc, fresh, bind_graphics_pipeline(sc, inner).ret,
                      bind_graphics_pipeline(fresh, inner).ret)
        /\ UNCHANGED <<supplied, freshCmp, out, dsghost, hist, watched, bound>>

F_BindComputePipeline ==
    \E inner \in Pipelines :
        /\ BindComputePipeline(inner)
        /\ fresh' = bind_compute_pipeline(fresh, inner).self
        /\ obs' = Obs("bind_compute_pipeline", sc, fresh, bind_compute_pipeline(sc, inner).ret,
                      bind_compute_pipeline(fresh, inner).ret)
        /\ UNCHANGED <<supplied, freshCmp, out, dsghost, hist, watched, bound>>

F_BindIndexBuffer ==
    \E value \in IndexBuffers :
        /\ BindIndexBuffer(value)
        /\ fresh' = bind_index_buffer(fresh, value).self
        /\ obs' = Obs("bind_index_buffer", sc, fresh, bind_index_buffer(sc, value).ret,
                      bind_index_buffer(fresh, value).ret)
        /\ UNCHANGED <<supplied, freshCmp, out, dsghost, hist, watched, bound>>

F_BindDescriptorSets ==
    \E graphics \in BOOLEAN :
        /\ BindDescriptorSets(graphics)
        /\ fresh' = bind_descriptor_sets(fresh, graphics).self
        /\ freshCmp' = Some(bind_descriptor_sets(fresh, graphics).ret)
        /\ obs' = Obs("bind_descriptor_sets", sc, fresh, None, None)
        /\ abandoned' = FALSE
        /\ UNCHANGED <<supplied, out, begun, lastCmp, hist, watched, bound>>

F_Add ==
    \E raw \in Sets :
        /\ Add(raw)
        /\ fresh' = add(fresh, freshCmp[1], raw).self
        /\ freshCmp' = Some(add(fresh, freshCmp[1], raw).cmp)
        /\ obs' = Obs("add", sc, fresh, None, None)
        /\ UNCHANGED <<supplied, out, dsghost, hist, watched, bound>>

F_Compare ==
    /\ Compare
    /\ fresh' = compare(fresh, freshCmp[1]).self
    /\ freshCmp' = None
    /\ obs' = Obs("compare", sc, fresh, compare(sc, cmp[1]).ret, compare(fresh, freshCmp[1]).ret)
    /\ UNCHANGED <<supplied, out, dsghost, hist, watched, bound>>

F_Drop ==
    /\ Drop
    /\ freshCmp' = None
    /\ obs' = Obs("drop", sc, fresh, None, None)
    /\ abandoned' = TRUE
    /\ UNCHANGED <<supplied, fresh, out, begun, lastCmp, hist, watched, bound>>

Next ==
    \/ F_Invalidate
    \/ F_DynamicState
    \/ F_BindGraphicsPipeline
    \/ F_BindComputePipeline
    \/ F_BindIndexBuffer
    \/ F_BindDescriptorSets
    \/ F_Add
    \/ F_Compare
    \/ F_Drop

Spec == Init /\ [][Next]_vars

\* ------------------------------------------------ a whole comparison
\* The lists of at most MaxAdds descriptor sets.
Lists == UNION {[1..n -> Sets] : n \in 0..MaxAdds}

\* add called for each set of the list from its k-th on, one by one.
RECURSIVE add_each(_, _, _)
add_each(r, list, k) ==
    IF k > Len(list) THEN r
    ELSE add_each(add(r.self, r.cmp, list[k]), list, k + 1)

\* bind_descriptor_sets, add for each set of the list, then compare.
Comparison(self, graphics, list) ==
    LET b == bind_descriptor_sets(self, graphics)
        a == add_each([self |-> b.self, cmp |-> b.ret], list, 1)
    IN compare(a.self, a.cmp)

\* ---------------------------------------------------------- the claims
IsPrefix(s, t) == Len(s) <= Len(t) /\ SubSeq(t, 1, Len(s)) = s

\* The indices (from 0) at which the list differs from the cached list c.
Differing(c, list) ==
    {i \in 0..(Len(list) - 1) : i >= Len(c) \/ c[i + 1] # list[i + 1]}

FirstDiffering(c, list) ==
    IF Differing(c, list) = {} THEN None
    ELSE Some(CHOOSE i \in Differing(c, list) : \A j \in Differing(c, list) : i <= j)

\* C1: after bind_descriptor_sets, one add per element of the list and
\* compare, the cached list of that pipeline type is exactly the list
\* supplied.  The code violates it: add never advances the cursor, so
\* compare removes every element of the cached list.
C1_CacheIsSuppliedList ==
    out.op = "compare" => state(sc, out.arg) = out.arg.list

\* C2: a completed comparison that repeats, back to back and for the same
\* pipeline type, the list of the completed comparison before it returns None
\* and leaves the cached list as it found it.  The code violates it.
C2_RepeatReturnsNone ==
    (out.op = "compare" /\ lastCmp = Some(out.arg))
        => (out.ret = None /\ state(sc, out.arg) = begun.cached)

C4_NeverWronglyBound ==
    (out.op = "compare" /\ out.arg.graphics = watched)
        => \A i \in 1..Len(out.arg.list) :
               (out.ret = None \/ i <= out.ret[1]) => bound[i] = out.arg.list[i]

\* C4 witness: compare has returned an index for a list of two sets and the
\* caller has bound them, after an earlier list was bound in the same slots.
C4_Witness ==
    /\ out.op = "compare"
    /\ out.arg.graphics = watched
    /\ out.ret # None
    /\ Len(out.arg.list) = 2
    /\ bound[1] = out.arg.list[1]
    /\ bound[2] = out.arg.list[2]
    /\ MaxAdds >= 3 => bound[3] # 0

\* C5: after a comparator was dropped without compare, the next
\* bind_descriptor_sets, for either pipeline type, leaves both cached lists
\* empty before any add runs, and the comparison it starts, once completed
\* with a list that is not empty, returns index 0.
C5_DropFlushesBoth ==
    /\ (out.op = "bind_descriptor_sets" /\ begun.afterAbandon)
           => (sc.compute_descriptor_sets = <<>> /\ sc.graphics_descriptor_sets = <<>>)
    /\ (out.op = "compare" /\ begun.afterAbandon /\ out.arg.list # <<>>)
           => out.ret = Some(0)

\* C5 witness: a comparison begun after a drop that had left a set in a
\* cached list has completed with a list that is not empty.
C5_Witness ==
    /\ out.op = "compare"
    /\ begun.afterAbandon
    /\ begun.stale
    /\ out.arg.list # <<>>

\* C6: when the cached list is what the completed comparison before left
\* (by its documentation, the list that comparison supplied) and the list
\* supplied now is a proper prefix of it, compare returns None and the
\* cached list becomes exactly the list supplied.  The code violates it.
C6_ShrinkTruncates ==
    (/\ out.op = "compare"
     /\ lastCmp # None
     /\ lastCmp[1].graphics = out.arg.graphics
     /\ IsPrefix(out.arg.list, lastCmp[1].list)
     /\ out.arg.list # lastCmp[1].list)
        => (out.ret = None /\ state(sc, out.arg) = out.arg.list)

\* C7: from invalidate on, every call returns on the cache what it returns
\* on a cache built by new() and given the same calls since; and right
\* after invalidate every pipeline and index-buffer query reports
\* NeedChange, every dynamic state is returned whole, and every comparison
\* of a list that is not empty returns index 0.
C7_InvalidatedIsNew ==
    /\ obs.same
    /\ obs.invalidated =>
        /\ \A inner \in Pipelines :
               /\ bind_graphics_pipeline(sc, inner).ret = NeedChange
               /\ bind_compute_pipeline(sc, inner).ret = NeedChange
        /\ \A value \in IndexBuffers : bind_index_buffer(sc, value).ret = NeedChange
        /\ \A incoming \in DynamicStates : dynamic_state(sc, incoming).ret = incoming
        /\ \A graphics \in BOOLEAN : \A list \in Lists \ {<<>>} :
               Comparison(sc, graphics, list).ret = Some(0)

\* C7 witness: invalidate left a cache that differs from a new one (its
\* flag was still set by a dropped comparator); since then a query of every
\* other kind was made, and then bind_descriptor_sets.
C7_Witness ==
    /\ obs.differed
    /\ cmp # None
    /\ adds = 0
    /\ sc.graphics_pipeline # 0
    /\ sc.compute_pipeline # 0
    /\ sc.index_buffer # None
    /\ sc.dynamic_state.viewports # None

\* C8: a pipeline query returns AlreadyOk exactly when its handle is the one
\* of the latest query for the same pipeline type since new() or the last
\* invalidate, and the handle queried is the one cached afterwards; so a
\* query that repeats the one before it returns AlreadyOk, and one that
\* follows a query of another handle for the same type returns NeedChange.
C8_PipelineQuery ==
    /\ out.op = "bind_graphics_pipeline" =>
           /\ out.ret = AlreadyOk <=> out.arg = queried.graphics
           /\ out.ret \in {AlreadyOk, NeedChange}
           /\ sc.graphics_pipeline = out.arg
    /\ out.op = "bind_compute_pipeline" =>
           /\ out.ret = AlreadyOk <=> out.arg = queried.compute
           /\ out.ret \in {AlreadyOk, NeedChange}
           /\ sc.compute_pipeline = out.arg
    /\ (out.op \in {"bind_graphics_pipeline", "bind_compute_pipeline"} /\ prev.op = out.op)
           => (out.ret = AlreadyOk <=> prev.arg = out.arg)

\* C8 witness: a graphics pipeline was queried (NeedChange), the compute
\* pipeline was queried, and the same graphics pipeline queried again is
\* reported AlreadyOk.
C8_Witness ==
    /\ out.op = "bind_graphics_pipeline"
    /\ prev.op = "bind_compute_pipeline"
    /\ queried.graphics = out.arg
    /\ queried.compute # out.arg
    /\ out.ret = AlreadyOk

\* C9: bind_index_buffer returns AlreadyOk exactly when the stored binding is
\* Some of a tuple equal to the input in buffer, offset and index type, and
\* the input is the stored binding afterwards; so a query that differs in
\* any field from the query before it, and every query on a cache that
\* stores None, returns NeedChange.
C9_IndexBufferQuery ==
    out.op = "bind_index_buffer" =>
        /\ out.ret = AlreadyOk <=>
               /\ pre.index_buffer # None
               /\ pre.index_buffer[1].buffer = out.arg.buffer
               /\ pre.index_buffer[1].offset = out.arg.offset
               /\ pre.index_buffer[1].ty = out.arg.ty
        /\ out.ret \in {AlreadyOk, NeedChange}
        /\ sc.index_buffer = Some(out.arg)
        /\ (prev.op = "bind_index_buffer" /\ prev.arg # out.arg) => out.ret = NeedChange
        /\ (prev.op = "bind_index_buffer" /\ prev.arg = out.arg) => out.ret = AlreadyOk
        /\ prev.op \in {"new", "invalidate"} => out.ret = NeedChange

\* C9 witness: the query differs from the query before it in the index type
\* alone, and is reported NeedChange.
C9_Witness ==
    /\ out.op = "bind_index_buffer"
    /\ prev.op = "bind_index_buffer"
    /\ prev.arg.buffer = out.arg.buffer
    /\ prev.arg.offset = out.arg.offset
    /\ prev.arg.ty # out.arg.ty
    /\ out.ret = NeedChange

\* C10: when dynamic_state is called twice in a row with the same candidate,
\* the second call returns every field the candidate holds as absent, and
\* leaves the cached dynamic state as it found it.
C10_RepeatedDynamicState ==
    (out.op = "dynamic_state" /\ prev.op = "dynamic_state" /\ prev.arg = out.arg)
        => /\ out.arg.line_width # None => out.ret.line_width = None
           /\ out.arg.viewports # None => out.ret.viewports = None
           /\ out.arg.scissors # None => out.ret.scissors = None
           /\ sc.dynamic_state = pre.dynamic_state

\* C10 witness: the candidate holds all three fields, the first call
\* returned two of them and the second call has been made.
C10_Witness ==
    /\ out.op = "dynamic_state"
    /\ prev.op = "dynamic_state"
    /\ prev.arg = out.arg
    /\ out.arg.line_width # None
    /\ out.arg.viewports # None
    /\ out.arg.scissors # None
    /\ prev.ret.line_width # None
    /\ prev.ret.viewports = None
    /\ prev.ret.scissors # None

\* C11: for each field of the dynamic state, dynamic_state returns the field
\* present exactly when the candidate holds a value for it that differs from
\* the value cached before the call, and then with the candidate's value;
\* after the call the cache holds the candidate's value of every field the
\* candidate holds.
C11_FieldDelta ==
    out.op = "dynamic_state" =>
        \A f \in DynamicStateFields :
            /\ out.ret[f] # None <=> (out.arg[f] # None /\ out.arg[f] # pre.dynamic_state[f])
            /\ out.ret[f] # None => out.ret[f] = out.arg[f]
            /\ out.arg[f] # None => sc.dynamic_state[f] = out.arg[f]

\* C11 witness: the candidate holds a line width that differs from the one
\* cached (returned), the viewports cached (not returned) and scissors
\* where none were cached (returned).
C11_Witness ==
    /\ out.op = "dynamic_state"
    /\ pre.dynamic_state.line_width # None
    /\ out.arg.line_width # None
    /\ out.arg.line_width # pre.dynamic_state.line_width
    /\ out.ret.line_width = out.arg.line_width
    /\ out.arg.viewports # None
    /\ out.arg.viewports = pre.dynamic_state.viewports
    /\ out.ret.viewports = None
    /\ pre.dynamic_state.scissors = None
    /\ out.ret.scissors # None

\* C12: poisonned_descriptor_sets is true while a comparator lives, and when
\* none lives it is true exactly when the latest comparator was dropped
\* without compare: new() leaves it false, bind_descriptor_sets sets it,
\* compare clears it, and no other call (invalidate and the queries
\* included) changes it.
C12_PoisonnedWhileUnfinished ==
    /\ cmp # None => sc.poisonned_descriptor_sets
    /\ cmp = None => (sc.poisonned_descriptor_sets <=> abandoned)

\* C12 witness: a comparator was dropped without compare, invalidate was
\* called after it, and the flag is still set.
C12_Witness ==
    /\ cmp = None
    /\ abandoned
    /\ obs.invalidated
    /\ sc.poisonned_descriptor_sets

\* C13: the cursor of a comparator is 0 after bind_descriptor_sets and one
\* more after each add, whichever branch add takes: after k calls of add the
\* cursor is k.
C13_CursorCountsAdds ==
    cmp # None => cmp[1].offset = adds

\* C14: in every reachable state and for each field of the dynamic state,
\* the cached value is None when no value of the field was returned by
\* dynamic_state since new() or the last invalidate, and otherwise it is the
\* value returned last for the field: the cache never holds a value that was
\* not returned to the caller.
C14_CachedIsLastReturned ==
    \A f \in DynamicStateFields : sc.dynamic_state[f] = returned[f]

\* C14 witness: a line width was returned, then another one; viewports were
\* returned once and given again since (not returned); no scissors were.
C14_Witness ==
    /\ out.op = "dynamic_state"
    /\ pre.dynamic_state.line_width # None
    /\ out.ret.line_width # None
    /\ out.ret.line_width # pre.dynamic_state.line_width
    /\ out.arg.viewports # None
    /\ out.ret.viewports = None
    /\ returned.viewports # None
    /\ returned.scissors = None

\* C15: for every field of the dynamic state that the candidate holds as
\* None, dynamic_state returns the field as None and leaves its cached value
\* as it was, whether the cache held a value for it or not.
C15_AbsentFieldUntouched ==
    out.op = "dynamic_state" =>
        \A f \in DynamicStateFields :
            out.arg[f] = None =>
                /\ out.ret[f] = None
                /\ sc.dynamic_state[f] = pre.dynamic_state[f]

\* C15 witness: the candidate holds no line width where one was cached, no
\* viewports where none were cached, and scissors that differ from the
\* cached ones.
C15_Witness ==
    /\ out.op = "dynamic_state"
    /\ out.arg.line_width = None
    /\ pre.dynamic_state.line_width # None
    /\ out.arg.viewports = None
    /\ pre.dynamic_state.viewports = None
    /\ out.ret.scissors # None
    /\ pre.dynamic_state.scissors # None

\* The call with result r, made on the cache sc, wrote no field outside own.
OnlyWrites(r, own) ==
    \A f \in DOMAIN sc \ own : r.self[f] = sc[f]

\* C16: each single-state query changes its own category alone:
\* bind_graphics_pipeline, bind_compute_pipeline, bind_index_buffer and
\* dynamic_state leave every other field of the cache (the other pipeline,
\* the dynamic state, the index buffer, both lists of descriptor sets and
\* the poisoning flag) as they found it, and a query that returns AlreadyOk
\* leaves the whole cache as it found it.
C16_QueryWritesOwnCategory ==
    cmp = None =>
        /\ \A inner \in Pipelines :
               /\ OnlyWrites(bind_graphics_pipeline(sc, inner), {"graphics_pipeline"})
               /\ bind_graphics_pipeline(sc, inner).ret = AlreadyOk
                      => bind_graphics_pipeline(sc, inner).self = sc
               /\ OnlyWrites(bind_compute_pipeline(sc, inner), {"compute_pipeline"})
               /\ bind_compute_pipeline(sc, inner).ret = AlreadyOk
                      => bind_compute_pipeline(sc, inner).self = sc
        /\ \A value \in IndexBuffers :
               /\ OnlyWrites(bind_index_buffer(sc, value), {"index_buffer"})
               /\ bind_index_buffer(sc, value).ret = AlreadyOk
                      => bind_index_buffer(sc, value).self = sc
        /\ \A incoming \in DynamicStates :
               OnlyWrites(dynamic_state(sc, incoming), {"dynamic_state"})

\* C16 witness: the queries are made on a cache that holds something in
\* every category: both pipelines, an index buffer, every dynamic state, a
\* descriptor set left by a dropped comparator and the flag it left set.
C16_Witness ==
    /\ cmp = None
    /\ ~obs.invalidated
    /\ sc.graphics_pipeline # 0
    /\ sc.compute_pipeline # 0
    /\ sc.graphics_pipeline # sc.compute_pipeline
    /\ sc.index_buffer # None
    /\ \A f \in DynamicStateFields : sc.dynamic_state[f] # None
    /\ sc.graphics_descriptor_sets # <<>>
    /\ sc.poisonned_descriptor_sets

\* The cached list of the pipeline type a comparator of type graphics does
\* not borrow, in the record r of the two lists.
OtherList(r, graphics) ==
    IF graphics THEN r.compute ELSE r.graphics

\* The two cached lists of descriptor sets.
CachedLists ==
    [compute |-> sc.compute_descriptor_sets, graphics |-> sc.graphics_descriptor_sets]

\* C17: when bind_descriptor_sets finds the flag false it leaves both cached
\* lists as they were, and the add and compare calls that follow leave the
\* list of the other pipeline type as it was before bind_descriptor_sets;
\* a bind_descriptor_sets that changes a list found the flag true.
C17_OtherTypeUntouched ==
    /\ (out.op = "bind_descriptor_sets" /\ ~begun.poisonned)
           => (CachedLists.compute = begun.compute /\ CachedLists.graphics = begun.graphics)
    /\ (cmp # None /\ ~begun.poisonned)
           => OtherList(CachedLists, cmp[1].graphics) = OtherList(begun, cmp[1].graphics)
    /\ (out.op = "compare" /\ ~begun.poisonned)
           => OtherList(CachedLists, out.arg.graphics) = OtherList(begun, out.arg.graphics)
    /\ (out.op = "bind_descriptor_sets"
        /\ (CachedLists.compute # begun.compute \/ CachedLists.graphics # begun.graphics))
           => begun.poisonned

\* C17 witness: bind_descriptor_sets found the flag false, two descriptor
\* sets were added and compare has returned.
C17_Witness ==
    /\ out.op = "compare"
    /\ ~begun.poisonned
    /\ Len(out.arg.list) = 2
    /\ out.ret # None

\* C18: invalidate resets the dynamic state, both pipelines, both lists of
\* descriptor sets and the index buffer to what new() gives and leaves the
\* poisoning flag as it was: a flag left set by a dropped comparator is
\* still set after invalidate, and the bind_descriptor_sets that follows
\* still clears both lists.
C18_InvalidateKeepsPoisonned ==
    /\ cmp = None =>
           invalidate(sc) =
               [new EXCEPT !.poisonned_descriptor_sets = sc.poisonned_descriptor_sets]
    /\ obs.invalidated =>
           /\ sc = [new EXCEPT !.poisonned_descriptor_sets = abandoned]
           /\ abandoned =>
                  \A graphics \in BOOLEAN :
                      /\ bind_descriptor_sets(sc, graphics).self.compute_descriptor_sets = <<>>
                      /\ bind_descriptor_sets(sc, graphics).self.graphics_descriptor_sets = <<>>
                      /\ bind_descriptor_sets(sc, graphics).self.poisonned_descriptor_sets

\* C18 witness: invalidate was called after a comparator was dropped, and
\* left a cache that differs from a new one in the flag alone.
C18_Witness ==
    /\ obs.invalidated
    /\ obs.differed
    /\ abandoned
    /\ sc = [new EXCEPT !.poisonned_descriptor_sets = TRUE]

\* C19: an index returned by compare is less than the number of add calls
\* made on the comparator, so it names a slot of the list supplied; after
\* no add call at all compare returns None and leaves the cached list of
\* the comparator's pipeline type empty.
C19_IndexWithinSupplied ==
    out.op = "compare" =>
        /\ out.ret # None => (out.ret[1] >= 0 /\ out.ret[1] < Len(out.arg.list))
        /\ out.arg.list = <<>> => (out.ret = None /\ state(sc, out.arg) = <<>>)

\* C19 witness: compare returned an index after MaxAdds add calls, on a
\* comparator made after one of the same pipeline type was dropped with a
\* descriptor set in its list.
C19_Witness ==
    /\ out.op = "compare"
    /\ out.ret # None
    /\ Len(out.arg.list) = MaxAdds
    /\ begun.afterAbandon
    /\ OtherList(begun, ~out.arg.graphics) # <<>>

====
